---- MODULE Spec2Model ----
(***************************************************************************)
(* Model of the logging-sink writer-identity audit tool.                   *)
(*                                                                         *)
(* Two programs live in the repository:                                    *)
(*   "cloudshell" : gcp-au-writer-audit-cloudshell.py                      *)
(*   "legacy"     : gcp-au-writer-audit.py                                 *)
(* A run of either program is a state machine over the variables below;    *)
(* the steps of main() are cut at the calls to external collaborators,     *)
(* whose answers are nondeterministic inputs.                              *)
(*                                                                         *)
(* A Python str is a sequence of symbols.  The symbols are "/" (the        *)
(* separator), the three service identifiers (each one symbol, none of     *)
(* which contains "/") and "x" (any other text).                           *)
(***************************************************************************)
EXTENDS Integers, Sequences, FiniteSets, TLC

VARIABLES
    variant,          \* which program runs
    credentials,      \* is GOOGLE_APPLICATION_CREDENTIALS set in the environment
    pc,               \* position of main()
    writer_identity,  \* main's local
    destination,      \* main's local
    dest_type,        \* main's local (cloudshell)
    resource_name,    \* main's local (dataset_id / bucket_name / topic_name)
    dest_project,     \* main's local (cloudshell), an optional str
    project_id,       \* main's local (cloudshell): dest_project or args.project_id
    policy,           \* main's local: the object a retrieval returned
    findings,         \* main's local
    requests,         \* the external collaborator operations performed, in order
    stdout,           \* lines printed
    stderr,           \* messages on the error stream
    exit_status,      \* -1 while running, then the process exit status
    stages,           \* pipeline stages started, in order
    completed,        \* pipeline stages that completed without error, in order
    error,            \* the error the run hit ("none" when it hit none)
    fn,               \* pure-function harness: which function is under test
    fn_in,            \* pure-function harness: its input
    fn_out            \* pure-function harness: its results

vars == <<variant, credentials, pc, writer_identity, destination, dest_type,
          resource_name, dest_project, project_id, policy, findings, requests,
          stdout, stderr, exit_status, stages, completed, error, fn, fn_in,
          fn_out>>

runVars == <<variant, credentials, pc, writer_identity, destination, dest_type,
             resource_name, dest_project, project_id, policy, findings,
             requests, stdout, stderr, exit_status, stages, completed,
             error>>

fnVars == <<fn, fn_in, fn_out>>

(***************************************************************************)
(* Bounds of the model.                                                    *)
(***************************************************************************)
MaxLen == 5        \* longest destination string fed to the parser alone
MaxSegs == 3       \* most "/"-separated segments of a sink's destination
MaxBindings == 2   \* most role bindings of a policy

(***************************************************************************)
(* class DestinationType                                                   *)
(***************************************************************************)
BIGQUERY == <<"bigquery.googleapis.com">>
STORAGE == <<"storage.googleapis.com">>
PUBSUB == <<"pubsub.googleapis.com">>

NoneRole == "None"

\* EXPECTED_ROLES.get(destination_type): an exact-key lookup, None when absent
EXPECTED_ROLES_get(destination_type) ==
    IF destination_type = BIGQUERY THEN "roles/bigquery.dataEditor"
    ELSE IF destination_type = STORAGE THEN "roles/storage.objectCreator"
    ELSE IF destination_type = PUBSUB THEN "roles/pubsub.publisher"
    ELSE NoneRole

(***************************************************************************)
(* str operations                                                          *)
(***************************************************************************)
Symbols == {"/", "bigquery.googleapis.com", "storage.googleapis.com",
            "pubsub.googleapis.com", "x"}

RECURSIVE SplitAcc(_, _, _)
SplitAcc(s, cur, acc) ==
    IF s = <<>> THEN Append(acc, cur)
    ELSE IF Head(s) = "/" THEN SplitAcc(Tail(s), <<>>, Append(acc, cur))
    ELSE SplitAcc(Tail(s), Append(cur, Head(s)), acc)

\* s.split('/')
split(s) == SplitAcc(s, <<>>, <<>>)

\* s.startswith(prefix)
startswith(s, prefix) ==
    /\ Len(s) >= Len(prefix)
    /\ SubSeq(s, 1, Len(prefix)) = prefix

\* Optional[str]
None == [some |-> FALSE, val |-> <<>>]
Some(s) == [some |-> TRUE, val |-> s]

\* Python truthiness of an Optional[str]: None and '' are falsy
Truthy(o) == o.some /\ o.val # <<>>

\* a or b
Or(a, b) == IF Truthy(a) THEN a.val ELSE b

(***************************************************************************)
(* get_destination_info                                                    *)
(***************************************************************************)
\* a mutant of get_destination_info: the project read one segment early
get_destination_info_off_by_one(dest) ==
    LET parts == split(dest) IN
    IF Len(parts) < 2
    THEN [ok |-> FALSE, exc |-> "InvalidDestinationFormat",
          dest_type |-> <<>>, resource_name |-> <<>>, project_id |-> None]
    ELSE [ok |-> TRUE, exc |-> "none",
          dest_type |-> parts[1],
          resource_name |-> parts[Len(parts)],
          project_id |-> IF Len(parts) > 2 THEN Some(parts[2]) ELSE None]

get_destination_info(dest) ==
    LET parts == split(dest) IN
    IF Len(parts) < 2
    THEN [ok |-> FALSE, exc |-> "InvalidDestinationFormat",
          dest_type |-> <<>>, resource_name |-> <<>>, project_id |-> None]
    ELSE [ok |-> TRUE, exc |-> "none",
          dest_type |-> parts[1],
          resource_name |-> parts[Len(parts)],
          project_id |-> IF Len(parts) > 2 THEN Some(parts[3]) ELSE None]

(***************************************************************************)
(* IAM policy objects returned by the policy providers.  A provider hands  *)
(* back either the role -> members mapping itself (a dict) or an object    *)
(* carrying that mapping in its `bindings` attribute.  A dict is the       *)
(* sequence of its (role, members) items in iteration order.               *)
(***************************************************************************)
Identities == {"serviceAccount:writer", "user:other"}
Roles == {"roles/storage.objectCreator", "roles/storage.admin", "roles/owner"}
Members == SUBSET Identities

DistinctRoles(items) ==
    \A i, j \in 1..Len(items) : items[i].role = items[j].role => i = j

PolicyItems ==
    UNION {{items \in [1..k -> [role : Roles, members : Members]] :
               DistinctRoles(items)} : k \in 0..MaxBindings}

Dict(items) == [tag |-> "dict", items |-> items, bindings |-> <<>>]
Wrapped(items) == [tag |-> "object", items |-> <<>>, bindings |-> items]
NoPolicy == [tag |-> "unset", items |-> <<>>, bindings |-> <<>>]

\* What each provider answers: the bucket's policy is the mapping itself,
\* the dataset's and the topic's carry it in `bindings` (the forms main of
\* the legacy program relies on, branch by branch).
PoliciesFrom(kind) ==
    IF kind = "storage" THEN {Dict(items) : items \in PolicyItems}
    ELSE {Wrapped(items) : items \in PolicyItems}

\* the mapping a policy object stands for, whatever its form
MappingOf(obj) == IF obj.tag = "object" THEN obj.bindings ELSE obj.items

\* results of calls that may raise
Return(v) == [ok |-> TRUE, exc |-> "none", val |-> v]
Raise(exc) == [ok |-> FALSE, exc |-> exc, val |-> <<>>]

\* a mutant of getattr_bindings: the policy used as it came
getattr_bindings_absent(obj) == obj

\* getattr(policy, 'bindings', policy)
getattr_bindings(obj) ==
    IF obj.tag = "object" THEN Dict(obj.bindings) ELSE obj

\* policy.bindings
attr_bindings(obj) ==
    IF obj.tag = "object" THEN Return(Dict(obj.bindings))
    ELSE Raise("AttributeError")

\* mapping.items()
items_of(obj) ==
    IF obj.tag = "dict" THEN Return(obj.items) ELSE Raise("AttributeError")

(***************************************************************************)
(* audit_policy (cloudshell)                                               *)
(***************************************************************************)
AuditFinding(role, members, expected_role) ==
    [role |-> role, members |-> members, expected_role |-> expected_role]

\* a mutant of AuditLoop: findings.insert(0, finding) for findings.append
RECURSIVE AuditLoopPrepend(_, _, _, _)
AuditLoopPrepend(items, identity, expected_role, acc) ==
    IF items = <<>> THEN acc
    ELSE AuditLoopPrepend(Tail(items), identity, expected_role,
                          IF identity \in Head(items).members
                          THEN <<AuditFinding(Head(items).role,
                                              Head(items).members,
                                              expected_role)>> \o acc
                          ELSE acc)

RECURSIVE AuditLoop(_, _, _, _)
AuditLoop(items, identity, expected_role, acc) ==
    IF items = <<>> THEN acc
    ELSE AuditLoop(Tail(items), identity, expected_role,
                   IF identity \in Head(items).members
                   THEN Append(acc, AuditFinding(Head(items).role,
                                                 Head(items).members,
                                                 expected_role))
                   ELSE acc)

audit_policy(pol, identity, destination_type) ==
    LET bindings == getattr_bindings(pol)
        expected_role == EXPECTED_ROLES_get(destination_type)
        its == items_of(bindings)
    IN  IF its.ok
        THEN Return(AuditLoop(its.val, identity, expected_role, <<>>))
        ELSE Raise(its.exc)

(***************************************************************************)
(* audit_policy (legacy): findings are (role, members) tuples              *)
(***************************************************************************)
RECURSIVE LegacyAuditLoop(_, _, _)
LegacyAuditLoop(items, identity, acc) ==
    IF items = <<>> THEN acc
    ELSE LegacyAuditLoop(Tail(items), identity,
                         IF identity \in Head(items).members
                         THEN Append(acc, <<Head(items).role,
                                            Head(items).members>>)
                         ELSE acc)

legacy_audit_policy(pol, identity) ==
    LET its == items_of(pol)
    IN  IF its.ok THEN Return(LegacyAuditLoop(its.val, identity, <<>>))
        ELSE Raise(its.exc)

(***************************************************************************)
(* Inputs of a run                                                         *)
(***************************************************************************)
\* args.sink_name, args.project_id
SinkName == <<"x">>
ArgProjectId == <<"x", "x">>

RECURSIVE Join(_)
Join(segs) ==
    IF Len(segs) = 1 THEN segs[1]
    ELSE segs[1] \o <<"/">> \o Join(Tail(segs))

FirstSegs == {<<>>, <<"x">>, <<"x">> \o BIGQUERY}
                 \cup {k : k \in {BIGQUERY, STORAGE, PUBSUB}}
                 \cup {k \o <<"x">> : k \in {BIGQUERY, STORAGE, PUBSUB}}
RestSegs == {<<>>, <<"x">>}

\* sink.destination: what the sink lookup may answer
Destinations ==
    UNION {{Join(<<f>> \o r) : f \in FirstSegs, r \in [1..k -> RestSegs]} :
               k \in 0..(MaxSegs - 1)}

\* how a call to an external collaborator may end
Outcomes == {"ok", "NotFound", "Exception"}

(***************************************************************************)
(* Output and termination                                                  *)
(***************************************************************************)
Line(text, arg) == [text |-> text, arg |-> arg]

IsValueError(exc) ==
    exc \in {"SinkNotFound", "InvalidDestinationFormat", "ResourceNotFound"}

\* a mutant of Abort: the error is reported and the failed step tried again
AbortRetry(exc) ==
    /\ stderr' = Append(stderr, Line("Error", exc))
    /\ exit_status' = exit_status
    /\ error' = exc
    /\ pc' = pc

\* An exception leaves main.  cloudshell: the except clauses turn it into
\* sys.exit(message), i.e. the message on stderr and exit status 1.
\* legacy: nothing catches it; the interpreter prints the traceback on
\* stderr and exits with status 1.
Abort(exc) ==
    /\ stderr' = Append(stderr,
           Line(IF variant = "legacy" THEN "Traceback"
                ELSE IF IsValueError(exc) THEN "Error"
                ELSE "Unexpected error", exc))
    /\ exit_status' = 1
    /\ error' = exc
    /\ pc' = "done"

\* the NotFound -> ValueError translation of the cloudshell adapters
Translate(outcome, valueError) ==
    IF variant = "cloudshell" /\ outcome = "NotFound" THEN valueError
    ELSE outcome

(***************************************************************************)
(* main                                                                    *)
(***************************************************************************)
RunInit ==
    /\ variant \in {"cloudshell", "legacy"}
    /\ credentials \in BOOLEAN
    /\ pc = "start"
    /\ writer_identity = ""
    /\ destination = <<>>
    /\ dest_type = <<>>
    /\ resource_name = <<>>
    /\ dest_project = None
    /\ project_id = <<>>
    /\ policy = NoPolicy
    /\ findings = <<>>
    /\ requests = <<>>
    /\ stdout = <<>>
    /\ stderr = <<>>
    /\ exit_status = -1
    /\ stages = <<>>
    /\ completed = <<>>
    /\ error = "none"

FnIdle ==
    /\ fn = "none"
    /\ fn_in = <<>>
    /\ fn_out = <<>>

Init == RunInit /\ FnIdle

CredentialsText ==
    "Please set the GOOGLE_APPLICATION_CREDENTIALS environment variable to your service account key."

\* legacy only: the GOOGLE_APPLICATION_CREDENTIALS test before anything else
Start ==
    /\ pc = "start"
    /\ IF variant = "legacy" /\ ~credentials
       THEN /\ stdout' = Append(stdout, Line(CredentialsText, <<>>))
            /\ error' = "MissingCredentials"
            /\ exit_status' = 0
            /\ pc' = "done"
       ELSE /\ pc' = "resolve"
            /\ UNCHANGED <<stdout, error, exit_status>>
    /\ UNCHANGED <<variant, credentials, writer_identity, destination,
                   dest_type, resource_name, dest_project, project_id, policy,
                   findings, requests, stderr, stages, completed, fnVars>>

\* get_writer_identity(args.sink_name, args.project_id) and the two prints
Resolve ==
    /\ pc = "resolve"
    /\ stages' = Append(stages, "resolve")
    /\ requests' = Append(requests,
           [op |-> "sink.reload", args |-> <<SinkName, ArgProjectId>>])
    /\ \E outcome \in Outcomes :
          IF outcome = "ok"
          THEN \E wi \in Identities, dest \in Destinations :
                  /\ writer_identity' = wi
                  /\ destination' = dest
                  /\ stdout' = stdout \o <<Line("Writer Identity", wi),
                                           Line("Destination", dest)>>
                  /\ completed' = Append(completed, "resolve")
                  /\ pc' = IF variant = "cloudshell" THEN "parse" ELSE "fetch"
                  /\ UNCHANGED <<stderr, exit_status, error>>
          ELSE /\ Abort(Translate(outcome, "SinkNotFound"))
               /\ UNCHANGED <<writer_identity, destination, stdout, completed>>
    /\ UNCHANGED <<variant, credentials, dest_type, resource_name,
                   dest_project, project_id, policy, findings, fnVars>>

\* cloudshell: get_destination_info(destination) and the project fallback
Parse ==
    /\ pc = "parse"
    /\ stages' = Append(stages, "parse")
    /\ LET r == get_destination_info(destination) IN
       IF r.ok
       THEN /\ dest_type' = r.dest_type
            /\ resource_name' = r.resource_name
            /\ dest_project' = r.project_id
            /\ project_id' = Or(r.project_id, ArgProjectId)
            /\ completed' = Append(completed, "parse")
            /\ pc' = "fetch"
            /\ UNCHANGED <<stderr, exit_status, error>>
       ELSE /\ Abort(r.exc)
            /\ UNCHANGED <<dest_type, resource_name, dest_project, project_id,
                           completed>>
    /\ UNCHANGED <<variant, credentials, writer_identity, destination, policy,
                   findings, requests, stdout, fnVars>>

\* the if / elif chain that picks the retrieval
Selected(t) ==
    IF startswith(t, BIGQUERY) THEN "bigquery"
    ELSE IF startswith(t, STORAGE) THEN "storage"
    ELSE IF startswith(t, PUBSUB) THEN "pubsub"
    ELSE "unsupported"

\* the collaborator operation each get_*_policy performs
Request(kind, name, project) ==
    IF kind = "bigquery"
    THEN [op |-> "bigquery.get_iam_policy", args |-> <<name>>]
    ELSE IF kind = "storage"
    THEN [op |-> "bucket.get_iam_policy", args |-> <<name>>]
    ELSE [op |-> "publisher.get_iam_policy", args |-> <<name, project>>]

\* cloudshell: get_bigquery_policy / get_storage_policy / get_pubsub_policy
FetchCloudshell ==
    /\ pc = "fetch"
    /\ variant = "cloudshell"
    /\ Selected(dest_type) # "unsupported"
    /\ stages' = Append(stages, "fetch")
    /\ requests' = Append(requests,
                          Request(Selected(dest_type), resource_name, project_id))
    /\ \E outcome \in Outcomes :
          IF outcome = "ok"
          THEN \E pol \in PoliciesFrom(Selected(dest_type)) :
                  /\ policy' = pol
                  /\ completed' = Append(completed, "fetch")
                  /\ pc' = "audit"
                  /\ UNCHANGED <<stderr, exit_status, error>>
          ELSE /\ Abort(Translate(outcome, "ResourceNotFound"))
               /\ UNCHANGED <<policy, completed>>
    /\ UNCHANGED <<variant, credentials, writer_identity, destination,
                   dest_type, resource_name, dest_project, project_id,
                   findings, stdout, fnVars>>

\* legacy: destination.split("/")[-1], then get_*_policy(name).
\* get_pubsub_policy reads the name project_id, which is bound neither in
\* the function nor in the module (main's is args.project_id): NameError
\* before the collaborator is asked for the policy.
FetchLegacy ==
    /\ pc = "fetch"
    /\ variant = "legacy"
    /\ Selected(destination) # "unsupported"
    /\ LET parts == split(destination)
           name == parts[Len(parts)]
           kind == Selected(destination)
       IN  /\ resource_name' = name
           /\ stages' = stages \o <<"parse", "fetch">>
           /\ IF kind = "pubsub"
              THEN /\ Abort("NameError")
                   /\ completed' = Append(completed, "parse")
                   /\ UNCHANGED <<requests, policy>>
              ELSE /\ requests' = Append(requests, Request(kind, name, <<>>))
                   /\ \E outcome \in Outcomes :
                         IF outcome = "ok"
                         THEN \E pol \in PoliciesFrom(kind) :
                                 /\ policy' = pol
                                 /\ completed' = completed \o <<"parse", "fetch">>
                                 /\ pc' = "audit"
                                 /\ UNCHANGED <<stderr, exit_status, error>>
                         ELSE /\ Abort(outcome)
                              /\ completed' = Append(completed, "parse")
                              /\ UNCHANGED policy
    /\ UNCHANGED <<variant, credentials, writer_identity, destination,
                   dest_type, dest_project, project_id, findings, stdout,
                   fnVars>>

\* the else branch of the chain.  cloudshell: sys.exit(message) raises
\* SystemExit, which neither except clause catches (it is no Exception):
\* message on stderr, exit status 1.  legacy: print and return.
Unsupported ==
    /\ pc = "fetch"
    /\ IF variant = "cloudshell"
       THEN /\ Selected(dest_type) = "unsupported"
            /\ stderr' = Append(stderr, Line("Error", "UnsupportedDestinationType"))
            /\ exit_status' = 1
            /\ UNCHANGED stdout
       ELSE /\ Selected(destination) = "unsupported"
            /\ stdout' = Append(stdout, Line("Unsupported destination type.", <<>>))
            /\ exit_status' = 0
            /\ UNCHANGED stderr
    /\ error' = "UnsupportedDestinationType"
    /\ pc' = "done"
    /\ UNCHANGED <<variant, credentials, writer_identity, destination,
                   dest_type, resource_name, dest_project, project_id, policy,
                   findings, requests, stages, completed, fnVars>>

\* the audit call of main
AuditCall ==
    IF variant = "cloudshell"
    THEN audit_policy(policy, writer_identity, dest_type)
    ELSE IF Selected(destination) = "storage"
    THEN legacy_audit_policy(policy, writer_identity)
    ELSE LET b == attr_bindings(policy) IN
         IF b.ok THEN legacy_audit_policy(b.val, writer_identity)
         ELSE Raise(b.exc)

Audit ==
    /\ pc = "audit"
    /\ stages' = Append(stages, "audit")
    /\ LET r == AuditCall IN
       IF r.ok
       THEN /\ findings' = r.val
            /\ completed' = Append(completed, "audit")
            /\ pc' = "report"
            /\ UNCHANGED <<stderr, exit_status, error>>
       ELSE /\ Abort(r.exc)
            /\ UNCHANGED <<findings, completed>>
    /\ UNCHANGED <<variant, credentials, writer_identity, destination,
                   dest_type, resource_name, dest_project, project_id, policy,
                   requests, stdout, fnVars>>

\* the lines the report prints for the findings
RECURSIVE FindingLines(_)
FindingLines(fs) ==
    IF fs = <<>> THEN <<>>
    ELSE <<Line("- Role", Head(fs))>> \o FindingLines(Tail(fs))

\* (the legacy program ends the sentence with a full stop)
NoExcessiveText == "No excessive permissions found for the writer identity"

\* a mutant of ReportLines: the else branch taken whatever the findings
ReportLinesAlwaysClean(fs) == <<Line(NoExcessiveText, <<>>)>>

ReportLines(fs) ==
    IF fs # <<>>
    THEN <<Line("IAM Policy Audit Findings:", <<>>)>> \o FindingLines(fs)
    ELSE <<Line(NoExcessiveText, <<>>)>>

\* the report, then main returns: exit status 0
Report ==
    /\ pc = "report"
    /\ stages' = Append(stages, "report")
    /\ stdout' = stdout \o ReportLines(findings)
    /\ completed' = Append(completed, "report")
    /\ exit_status' = 0
    /\ pc' = "done"
    /\ UNCHANGED <<variant, credentials, writer_identity, destination,
                   dest_type, resource_name, dest_project, project_id, policy,
                   findings, requests, stderr, error, fnVars>>

(***************************************************************************)
(* The parser and the auditor on their own: the input is drawn in the      *)
(* initial state and the function applied to it.                           *)
(***************************************************************************)
RunIdle ==
    /\ variant = "cloudshell"
    /\ credentials = TRUE
    /\ pc = "idle"
    /\ writer_identity = ""
    /\ destination = <<>>
    /\ dest_type = <<>>
    /\ resource_name = <<>>
    /\ dest_project = None
    /\ project_id = <<>>
    /\ policy = NoPolicy
    /\ findings = <<>>
    /\ requests = <<>>
    /\ stdout = <<>>
    /\ stderr = <<>>
    /\ exit_status = -1
    /\ stages = <<>>
    /\ completed = <<>>
    /\ error = "none"

\* every str of at most MaxLen symbols
Strings == UNION {[1..k -> Symbols] : k \in 0..MaxLen}

ParseInit ==
    /\ RunIdle
    /\ fn = "parse"
    /\ fn_in \in Strings
    /\ fn_out = <<>>

ParseDestination ==
    /\ fn = "parse"
    /\ fn' = "parsed"
    /\ fn_out' = get_destination_info(fn_in)
    /\ UNCHANGED <<fn_in, runVars>>

ParseSpec == ParseInit /\ [][ParseDestination]_vars

NotRun == [ok |-> FALSE, exc |-> "not run", val |-> <<>>]

AuditInit ==
    /\ RunIdle
    /\ fn = "audit"
    /\ fn_in \in [items : PolicyItems, identity : Identities,
                  destination_type : FirstSegs]
    /\ fn_out = [raw |-> NotRun, wrapped |-> NotRun]

\* audit_policy on the mapping itself
AuditRaw ==
    /\ fn = "audit"
    /\ fn_out.raw.exc = "not run"
    /\ fn_out' = [fn_out EXCEPT !.raw =
           audit_policy(Dict(fn_in.items), fn_in.identity,
                        fn_in.destination_type)]
    /\ UNCHANGED <<fn, fn_in, runVars>>

\* audit_policy on an object carrying the mapping in `bindings`
AuditWrapped ==
    /\ fn = "audit"
    /\ fn_out.wrapped.exc = "not run"
    /\ fn_out' = [fn_out EXCEPT !.wrapped =
           audit_policy(Wrapped(fn_in.items), fn_in.identity,
                        fn_in.destination_type)]
    /\ UNCHANGED <<fn, fn_in, runVars>>

AuditNext == AuditRaw \/ AuditWrapped

AuditSpec == AuditInit /\ [][AuditNext]_vars

Next ==
    \/ Start
    \/ Resolve
    \/ Parse
    \/ FetchCloudshell
    \/ FetchLegacy
    \/ Unsupported
    \/ Audit
    \/ Report

Spec == Init /\ [][Next]_vars

(***************************************************************************)
(* Vocabulary of the properties                                            *)
(***************************************************************************)
PIPELINE == <<"resolve", "parse", "fetch", "audit", "report">>

IsPrefix(a, b) == Len(a) <= Len(b) /\ SubSeq(b, 1, Len(a)) = a

Has(seq, x) == \E i \in 1..Len(seq) : seq[i] = x

IsRetrieval(r) == r.op # "sink.reload"

\* the policy retrievals performed so far
Retrievals == SelectSeq(requests, IsRetrieval)

\* the run went through the if / elif chain that picks the retrieval
PastDispatch ==
    /\ pc \in {"audit", "report", "done"}
    /\ Has(completed, "resolve")
    /\ variant = "cloudshell" => Has(completed, "parse")

\* positions of the separators of a str, and its segments read off them
SlashPos(s) == {i \in 1..Len(s) : s[i] = "/"}
NSeg(s) == Cardinality(SlashPos(s)) + 1
Cut(s, k) ==
    IF k = 0 THEN 0
    ELSE IF k = NSeg(s) THEN Len(s) + 1
    ELSE CHOOSE i \in SlashPos(s) :
             Cardinality({j \in SlashPos(s) : j <= i}) = k
Seg(s, k) == SubSeq(s, Cut(s, k - 1) + 1, Cut(s, k) - 1)

TypeOf(dest) == Seg(dest, 1)
NameOf(dest) == Seg(dest, NSeg(dest))

\* indices of the bindings of the fetched policy that hold the writer identity
Containing ==
    {j \in 1..Len(MappingOf(policy)) :
         writer_identity \in MappingOf(policy)[j].members}

NoExcessivePrinted ==
    \E i \in 1..Len(stdout) : stdout[i].text = NoExcessiveText

FindingLinesPrinted == {i \in 1..Len(stdout) : stdout[i].text = "- Role"}

(***************************************************************************)
(* C4: parse_destination.  Fewer than 2 segments: InvalidDestinationFormat *)
(* and no result.  Otherwise type = first segment, resource_name = last    *)
(* segment, project = third segment when there are more than 2 segments    *)
(* and absent when there are exactly 2.                                    *)
(***************************************************************************)
C4_ParseDestination ==
    fn = "parsed" =>
        LET n == NSeg(fn_in) IN
        /\ n < 2 => ~fn_out.ok /\ fn_out.exc = "InvalidDestinationFormat"
        /\ n >= 2 => /\ fn_out.ok
                     /\ fn_out.dest_type = Seg(fn_in, 1)
                     /\ fn_out.resource_name = Seg(fn_in, n)
        /\ n > 2 => fn_out.project_id = Some(Seg(fn_in, 3))
        /\ n = 2 => fn_out.project_id = None

C4_Witness ==
    /\ fn = "parsed"
    /\ NSeg(fn_in) > 3
    /\ fn_out.ok
    /\ fn_out.project_id.val # <<>>
    /\ fn_out.project_id.val # fn_out.resource_name
    /\ fn_out.project_id.val # Seg(fn_in, 2)

(***************************************************************************)
(* C3: audit returns exactly one finding per role whose members hold the   *)
(* identity and none for any other role; a finding's role is a key of the  *)
(* policy, its members are that role's members and hold the identity; the  *)
(* findings come in the policy's iteration order.                          *)
(***************************************************************************)
FindingsMatch(fs, items, identity) ==
    /\ \A i \in 1..Len(fs) :
          \E j \in 1..Len(items) :
              /\ fs[i].role = items[j].role
              /\ fs[i].members = items[j].members
              /\ identity \in fs[i].members
    /\ \A j \in 1..Len(items) :
          Cardinality({i \in 1..Len(fs) : fs[i].role = items[j].role})
              = IF identity \in items[j].members THEN 1 ELSE 0
    /\ \A i1, i2 \in 1..Len(fs) :
          i1 < i2 =>
              \E j1, j2 \in 1..Len(items) :
                  /\ j1 < j2
                  /\ items[j1].role = fs[i1].role
                  /\ items[j2].role = fs[i2].role

C3_AuditFindings ==
    /\ fn_out.raw.exc # "not run" =>
          /\ fn_out.raw.ok
          /\ FindingsMatch(fn_out.raw.val, fn_in.items, fn_in.identity)
    /\ fn_out.wrapped.exc # "not run" =>
          /\ fn_out.wrapped.ok
          /\ FindingsMatch(fn_out.wrapped.val, fn_in.items, fn_in.identity)

C3_Witness ==
    /\ fn_out.raw.ok
    /\ Len(fn_in.items) = 2
    /\ Len(fn_out.raw.val) = 1
    /\ fn_out.raw.val[1].role = fn_in.items[2].role

(***************************************************************************)
(* C10: audit of a mapping and audit of an object that carries the same    *)
(* mapping in `bindings` return the same findings, in the same order.      *)
(***************************************************************************)
C10_RawEqualsWrapped ==
    (fn_out.raw.exc # "not run" /\ fn_out.wrapped.exc # "not run") =>
        /\ fn_out.raw.ok
        /\ fn_out.wrapped.ok
        /\ fn_out.raw.val = fn_out.wrapped.val

C10_Witness ==
    /\ fn_out.raw.ok
    /\ fn_out.wrapped.ok
    /\ Len(fn_out.wrapped.val) >= 1
    /\ fn_out.wrapped.val[1].expected_role # NoneRole

(***************************************************************************)
(* C8: the stages run in the order resolve, parse, fetch, audit, report;   *)
(* a stage starts only after every earlier one completed without error;    *)
(* each stage and each collaborator call happens at most once; after the   *)
(* first failing stage nothing more is executed.                           *)
(***************************************************************************)
StagesInOrder ==
    /\ IsPrefix(stages, PIPELINE)
    /\ IsPrefix(completed, stages)
    /\ Len(stages) <= Len(completed) + 1
    /\ Len(stages) > Len(completed) => pc = "done" /\ exit_status # 0
    /\ \A i, j \in 1..Len(requests) : requests[i].op = requests[j].op => i = j
    /\ Len(Retrievals) <= 1
    /\ Len(requests) <= Len(stages)

C8_SequentialPipeline ==
    /\ []StagesInOrder
    /\ [][(Len(stages) > Len(completed) \/ exit_status # -1) =>
             (stages' = stages /\ requests' = requests /\ stdout' = stdout)]_vars

C8_Witness ==
    /\ pc = "done"
    /\ stages = <<"resolve", "parse", "fetch">>
    /\ completed = <<"resolve", "parse">>
    /\ Len(requests) = 2

(***************************************************************************)
(* C9: a run reports "no excessive permissions" exactly when the policy    *)
(* was fetched and no binding of it holds the writer identity; never on a  *)
(* run that failed; a run whose policy has such bindings prints one        *)
(* finding line for each of them instead.                                  *)
(***************************************************************************)
C9_NoExcessiveReport ==
    /\ pc # "done" => ~NoExcessivePrinted
    /\ pc = "done" =>
          /\ NoExcessivePrinted <=> (Has(completed, "fetch") /\ Containing = {})
          /\ error # "none" => ~NoExcessivePrinted
          /\ (Has(completed, "fetch") /\ Containing # {}) =>
                Cardinality(FindingLinesPrinted) = Cardinality(Containing)
          /\ Containing = {} => FindingLinesPrinted = {}

C9_Witness ==
    /\ pc = "done"
    /\ NoExcessivePrinted
    /\ Len(MappingOf(policy)) = 2
    /\ MappingOf(policy)[1].members # {}

(***************************************************************************)
(* C1 (as claimed): the retrieval is picked by prefix match of the         *)
(* destination type and exactly one retrieval is performed: the dataset's  *)
(* for BIGQUERY, the bucket's for STORAGE, the topic's for PUBSUB, each    *)
(* with the resource name; a type that matches no prefix fails the run     *)
(* with UnsupportedDestinationType, with no retrieval and no audit.        *)
(***************************************************************************)
RetrievalOp(kind) ==
    IF kind = "bigquery" THEN "bigquery.get_iam_policy"
    ELSE IF kind = "storage" THEN "bucket.get_iam_policy"
    ELSE "publisher.get_iam_policy"

C1_ExactlyOneRetrieval ==
    PastDispatch =>
        LET kind == Selected(TypeOf(destination)) IN
        IF kind = "unsupported"
        THEN /\ Retrievals = <<>>
             /\ ~Has(stages, "audit")
             /\ error = "UnsupportedDestinationType"
        ELSE /\ Len(Retrievals) = 1
             /\ Retrievals[1].op = RetrievalOp(kind)
             /\ Retrievals[1].args[1] = NameOf(destination)

(***************************************************************************)
(* C2 (as claimed): a run that hits a fatal error ends with a message on   *)
(* the error stream and a non-zero exit status; exit status 0 only after   *)
(* resolve, parse, fetch and audit all completed without error.            *)
(***************************************************************************)
C2_FatalErrorsExitNonZero ==
    pc = "done" =>
        /\ error \notin {"none", "MissingCredentials"} =>
              (stderr # <<>> /\ exit_status # 0)
        /\ exit_status = 0 =>
              \A st \in {"resolve", "parse", "fetch", "audit"} :
                  Has(completed, st)

(***************************************************************************)
(* C5 (as claimed): in a run whose destination type the dispatch accepts,  *)
(* every finding carries the expected minimal role of the matched type.    *)
(***************************************************************************)
MinimalRole(kind) ==
    IF kind = "bigquery" THEN "roles/bigquery.dataEditor"
    ELSE IF kind = "storage" THEN "roles/storage.objectCreator"
    ELSE "roles/pubsub.publisher"

C5_FindingsAnnotated ==
    (variant = "cloudshell" /\ Has(completed, "audit")) =>
        \A i \in 1..Len(findings) :
            findings[i].expected_role = MinimalRole(Selected(dest_type))

(***************************************************************************)
(* C6 (as claimed): whenever the destination type prefix-matches PUBSUB    *)
(* the topic's policy is retrieved with (resource_name, P), P the project  *)
(* parsed from the destination, or --project_id when there is none.        *)
(***************************************************************************)
C6_TopicRetrievalReached ==
    (PastDispatch /\ Selected(TypeOf(destination)) = "pubsub") =>
        LET dest == destination
            P == IF NSeg(dest) > 2 /\ Seg(dest, 3) # <<>>
                 THEN Seg(dest, 3) ELSE ArgProjectId
        IN  Has(requests, [op |-> "publisher.get_iam_policy",
                           args |-> <<NameOf(dest), P>>])

(***************************************************************************)
(* C7 (as claimed): with no credential reference configured the run stops  *)
(* before any collaborator call (no sink lookup, no retrieval, no audit)   *)
(* and prints the instruction to configure credentials.                    *)
(***************************************************************************)
C7_NoCallWithoutCredentials ==
    ~credentials =>
        /\ requests = <<>>
        /\ stages = <<>>
        /\ pc = "done" =>
              \E i \in 1..Len(stdout) :
                  stdout[i].text = CredentialsText

====
